---- MODULE Spec2Model ----
(***************************************************************************)
(* Model of homeassistant/components/haveibeenpwned/sensor.py: the shared  *)
(* HaveIBeenPwnedData fetcher (email list, rotating index, result cache,   *)
(* throttled update) and the HaveIBeenPwnedSensor entities that drive it.  *)
(***************************************************************************)
EXTENDS Integers, Sequences, FiniteSets, TLC

\* ------------------------------------------------------------------ bounds
MaxEmails == 2
MaxBreaches == 2

\* ------------------------------------------------------- program constants
MIN_TIME_BETWEEN_FORCED_UPDATES == 5
MIN_TIME_BETWEEN_UPDATES == 900

\* self._state = None / no entry, no timestamp, no timer
None == -1

\* ------------------------------------------------------------- input sets
\* CONF_EMAIL: a list of strings (duplicates are not rejected by the schema)
Addresses == {"a@x.com", "b@x.com"}

\* A breach record of the response: Title and AddedDate (dates as ordered integers)
BreachRecord == [Title : {"Acme"}, AddedDate : {1, 2}]

RECURSIVE SeqsUpTo(_, _)
SeqsUpTo(S, n) ==
    IF n = 0 THEN {<< >>}
    ELSE LET shorter == SeqsUpTo(S, n - 1)
         IN  shorter \cup {Append(s, x) : s \in {t \in shorter : Len(t) = n - 1}, x \in S}

\* req.json() of a well-formed 200 response
Responses == SeqsUpTo(BreachRecord, MaxBreaches)

\* Outcomes of requests.get and of reading the response:
\*   "ok"        status 200, body a JSON list of breach records
\*   "malformed" status 200, body that req.json()/sorted cannot process
\*   "not_found" status 404
\*   "other"     any other status (e.g. 429)
\*   "transport" requests.get raised a RequestException (connection error, timeout)
Outcomes == {"ok", "malformed", "not_found", "other", "transport"}

\* The configured email lists: non-empty, at most MaxEmails long
EmailLists == SeqsUpTo(Addresses, MaxEmails) \ {<< >>}

VARIABLES
    emails,         \* HaveIBeenPwnedData._emails
    current_index,  \* HaveIBeenPwnedData._current_index
    email,          \* HaveIBeenPwnedData._email
    data,           \* HaveIBeenPwnedData.data: address -> sorted breach list
    standardAge,    \* seconds since the standard gate's timestamp (None: never run)
    forcedAge,      \* seconds since the forced gate's timestamp (None: never run)
    state,          \* HaveIBeenPwnedSensor._state, per entity
    attached,       \* entities for which async_added_to_hass has run
    timer,          \* per entity: seconds until its queued update_nothrottle is due
    last,           \* observation of the most recent step
    fetched,        \* addresses whose fetch ran and ended with 200 (well-formed) or 404
    okRuns,         \* number of executed fetches while all ended 200/404 (None: no longer so)
    bodyAge,        \* seconds since the body of update last ran (None: never)
    bodyForced,     \* whether that run came through update_no_throttle
    notFound,       \* addresses whose current entry was stored by a 404
    bodyOutcome,    \* outcome of the last run of the body made by a direct call
    response        \* records of the 200 response a direct call has just stored

fetcherVars == <<emails, current_index, email, data, standardAge, forcedAge>>
sensorVars == <<state, attached, timer>>
observerVars == <<last, fetched, okRuns, bodyAge, bodyForced, notFound,
                  bodyOutcome, response>>

vars == <<fetcherVars, sensorVars, observerVars>>

email_count == Len(emails)

Entities == 1 .. email_count

Min(a, b) == IF a < b THEN a ELSE b
Max(a, b) == IF a > b THEN a ELSE b

\* ---------------------------------------------------------------- fetcher
\* Variant: the index is incremented without wrapping
set_next_email_no_wrap(idx) == idx + 1

\* Variant: the index moves two places
set_next_email_skip(idx) == (idx + 2) % email_count

\* set_next_email, line 155: the index after idx, wrapping
set_next_email(idx) == (idx + 1) % email_count

\* self._emails[idx]: a list index is valid from -len to len - 1, negative ones
\* counting from the end; any other raises IndexError
InRange(idx) == idx \in (0 - email_count) .. (email_count - 1)

\* Variant: the email is looked up one place past the index
ItemAt_next(idx) == emails[((idx + 1) % email_count) + 1]

ItemAt(idx) == emails[(idx % email_count) + 1]

\* sorted(records, key=AddedDate, reverse=True): stable insertion, descending
RECURSIVE InsertDesc(_, _)
InsertDesc(s, x) ==
    IF s = << >> THEN <<x>>
    ELSE IF Head(s).AddedDate >= x.AddedDate
         THEN <<Head(s)>> \o InsertDesc(Tail(s), x)
         ELSE <<x>> \o s

\* Variant: sorted without reverse=True (ascending)
RECURSIVE InsertAsc(_, _)
InsertAsc(s, x) ==
    IF s = << >> THEN <<x>>
    ELSE IF Head(s).AddedDate <= x.AddedDate
         THEN <<Head(s)>> \o InsertAsc(Tail(s), x)
         ELSE <<x>> \o s

RECURSIVE sorted_ascending(_)
sorted_ascending(s) ==
    IF s = << >> THEN << >>
    ELSE InsertAsc(sorted_ascending(SubSeq(s, 1, Len(s) - 1)), s[Len(s)])

RECURSIVE sorted(_)
sorted(s) ==
    IF s = << >> THEN << >>
    ELSE InsertDesc(sorted(SubSeq(s, 1, Len(s) - 1)), s[Len(s)])

\* Variant: the cache is replaced by a dict with the one key
SetItem_replace_all(d, key, value) == [a \in {key} |-> value]

\* self.data[key] = value
SetItem(d, key, value) ==
    [a \in DOMAIN d \cup {key} |-> IF a = key THEN value ELSE d[a]]

\* Variant: the cache starts with an empty list per address
PrefilledData == [a \in Addresses |-> << >>]

\* self.data = {}
EmptyData == [a \in {} |-> << >>]

\* What the 200 branch stores for the current email
StoreOk(d, key, body) == SetItem(d, key, sorted(body))

\* What the 404 branch stores for the current email
StoreNotFound(d, key) == SetItem(d, key, << >>)

\* Does the body of update raise for this outcome?
\*   "transport": the except branch reads req.text with req unbound (line 191)
\*   "malformed": req.json() / the sort key raise outside the try (lines 197-203)
Raises(outcome) == outcome \in {"transport", "malformed"}

\* The fetcher after set_next_email ran on the stored data d: the index is
\* assigned first, then the email is looked up (and the lookup may raise)
Advanced(d) ==
    LET next == set_next_email(current_index)
    IN  [data |-> d, current_index |-> next,
         email |-> IF InRange(next) THEN ItemAt(next) ELSE email,
         raised |-> ~InRange(next)]

\* Variant: the failure branches store an empty list for the current email
update_body_store_on_error(outcome, body) ==
    IF outcome = "ok" THEN Advanced(StoreOk(data, email, body))
    ELSE IF outcome = "not_found" THEN Advanced(StoreNotFound(data, email))
    ELSE [data |-> StoreNotFound(data, email), current_index |-> current_index,
          email |-> email, raised |-> Raises(outcome)]

\* Variant: the failure branches call set_next_email too
update_body_advance_always(outcome, body) ==
    IF outcome = "ok" THEN Advanced(StoreOk(data, email, body))
    ELSE IF outcome = "not_found" THEN Advanced(StoreNotFound(data, email))
    ELSE [Advanced(data) EXCEPT !.raised = Raises(outcome)]

\* The body of HaveIBeenPwnedData.update for one outcome of the request:
\* the fetcher's fields afterwards and whether the body raised
update_body(outcome, body) ==
    IF outcome = "ok" THEN Advanced(StoreOk(data, email, body))
    ELSE IF outcome = "not_found" THEN Advanced(StoreNotFound(data, email))
    ELSE [data |-> data, current_index |-> current_index, email |-> email,
          raised |-> Raises(outcome)]

\* --------------------------------------------------------------- throttle
\* A gate with window w whose timestamp is age seconds old lets a call through
GateOpen(age, w) == age = None \/ age > w

\* @Throttle(min_time, limit_no_throttle): does a call run the wrapped method?
\* no_throttle bypasses min_time only; limit_no_throttle applies to every call.
Throttle(min_time, limit_no_throttle, no_throttle) ==
    /\ no_throttle \/ GateOpen(standardAge, min_time)
    /\ GateOpen(forcedAge, limit_no_throttle)

\* Variant: the short window is given as the standard window too
update_throttle_short_window(no_throttle) ==
    Throttle(MIN_TIME_BETWEEN_FORCED_UPDATES, MIN_TIME_BETWEEN_FORCED_UPDATES, no_throttle)

\* Variant: the decorator is given the standard window only
update_throttle_no_limit(no_throttle) ==
    no_throttle \/ GateOpen(standardAge, MIN_TIME_BETWEEN_UPDATES)

\* Variant: the decorator is missing
update_throttle_missing(no_throttle) == TRUE

\* The decorator as applied to update (line 163)
update_throttle(no_throttle) ==
    Throttle(MIN_TIME_BETWEEN_UPDATES, MIN_TIME_BETWEEN_FORCED_UPDATES, no_throttle)

\* The throttled HaveIBeenPwnedData.update(**kwargs): the fetcher's fields
\* afterwards, whether the body ran and whether the call raised
update(no_throttle, outcome, body) ==
    IF update_throttle(no_throttle) THEN
        LET r == update_body(outcome, body)
        IN  [data |-> r.data, current_index |-> r.current_index, email |-> r.email,
             raised |-> r.raised, ran |-> TRUE]
    ELSE
        [data |-> data, current_index |-> current_index, email |-> email,
         raised |-> FALSE, ran |-> FALSE]

\* Variant: update_no_throttle calls update() without the keyword
update_no_throttle_plain(outcome, body) == update(FALSE, outcome, body)

\* HaveIBeenPwnedData.update_no_throttle: update(no_throttle=True)
update_no_throttle(outcome, body) == update(TRUE, outcome, body)

\* ---------------------------------------------------------------- observer
NoCall == [op |-> "none", entity |-> 0, forced |-> FALSE, ran |-> FALSE,
           outcome |-> "none", email |-> "none", index |-> 0, age |-> None,
           prevForced |-> FALSE, raised |-> FALSE,
           scheduled |-> FALSE, published |-> FALSE]

Succeeded(outcome) == outcome \in {"ok", "not_found"}

\* okRuns after an executed fetch with this outcome
CountRun(n, outcome) ==
    IF n = None \/ n >= email_count \/ ~Succeeded(outcome) THEN None ELSE n + 1

\* What a call through entry point op (forced: update_no_throttle) showed
Observed(op, i, forced, outcome, r) ==
    [op |-> op, entity |-> i, forced |-> forced, ran |-> r.ran,
     outcome |-> outcome, email |-> email, index |-> current_index,
     age |-> bodyAge, prevForced |-> bodyForced, raised |-> r.raised,
     scheduled |-> FALSE, published |-> FALSE]

\* What an entity's call showed: the throttle's clock is not visible to it
SensorObserved(op, i, forced, outcome, r, scheduled, published) ==
    [Observed(op, i, forced, outcome, r)
        EXCEPT !.age = None, !.prevForced = FALSE,
               !.scheduled = scheduled, !.published = published]

\* The fetcher after a call that returned r; a throttled call meets no outcome
Called(forced, outcome, r) ==
    /\ r.ran = (outcome # "throttled")
    /\ data' = r.data
    /\ current_index' = r.current_index
    /\ email' = r.email
    /\ standardAge' = IF r.ran THEN 0 ELSE standardAge
    /\ forcedAge' = IF r.ran THEN 0 ELSE forcedAge
    /\ bodyAge' = IF r.ran THEN 0 ELSE bodyAge
    /\ bodyForced' = IF r.ran THEN forced ELSE bodyForced
    /\ fetched' = IF r.ran /\ Succeeded(outcome) THEN fetched \cup {email} ELSE fetched
    /\ okRuns' = IF r.ran THEN CountRun(okRuns, outcome) ELSE okRuns
    /\ notFound' = IF r.ran /\ outcome = "not_found" THEN notFound \cup {email}
                   ELSE IF r.ran /\ outcome = "ok" THEN notFound \ {email}
                   ELSE notFound
    /\ UNCHANGED emails

\* ------------------------------------------------- the fetcher, any caller
\* data.update()
call_update(outcome, body) ==
    LET r == update(FALSE, outcome, body)
    IN  /\ Called(FALSE, outcome, r)
        /\ last' = Observed("update", 0, FALSE, outcome, r)
        /\ bodyOutcome' = IF r.ran THEN outcome ELSE bodyOutcome
        /\ response' = IF r.ran /\ outcome = "ok" THEN body ELSE << >>
        /\ UNCHANGED sensorVars

\* data.update_no_throttle()
call_update_no_throttle(outcome, body) ==
    LET r == update_no_throttle(outcome, body)
    IN  /\ Called(TRUE, outcome, r)
        /\ last' = Observed("update_no_throttle", 0, TRUE, outcome, r)
        /\ bodyOutcome' = IF r.ran THEN outcome ELSE bodyOutcome
        /\ response' = IF r.ran /\ outcome = "ok" THEN body ELSE << >>
        /\ UNCHANGED sensorVars

\* ---------------------------------------------------------------- entities
\* async_added_to_hass: queue update_nothrottle as an executor job
async_added_to_hass(i) ==
    /\ i \notin attached
    /\ attached' = attached \cup {i}
    /\ timer' = [timer EXCEPT ![i] = 0]
    /\ last' = [NoCall EXCEPT !.op = "async_added_to_hass", !.entity = i]
    /\ UNCHANGED <<fetcherVars, state, fetched, okRuns, bodyAge, bodyForced, notFound,
                   bodyOutcome, response>>

\* Variant: the value is the number of cached emails
refresh_state_counts_keys(i, d) ==
    IF emails[i] \in DOMAIN d
    THEN [state EXCEPT ![i] = Cardinality(DOMAIN d)]
    ELSE state

\* self._state = len(self._data.data[self._email]) when the email is in the cache d
refresh_state(i, d) ==
    IF emails[i] \in DOMAIN d
    THEN [state EXCEPT ![i] = Len(d[emails[i]])]
    ELSE state

\* HaveIBeenPwnedSensor.update_nothrottle, run as the queued job or the fired timer
sensor_update_nothrottle(i, outcome, body) ==
    /\ i \in attached
    /\ timer[i] = 0
    /\ LET r == update_no_throttle(outcome, body)
           present == emails[i] \in DOMAIN r.data
       IN  /\ Called(TRUE, outcome, r)
           /\ timer' = [timer EXCEPT ![i] =
                           IF ~r.raised /\ ~present
                           THEN MIN_TIME_BETWEEN_FORCED_UPDATES ELSE None]
           /\ state' = IF r.raised THEN state ELSE refresh_state(i, r.data)
           /\ last' = SensorObserved("sensor_update_nothrottle", i, TRUE, outcome, r,
                                      ~r.raised /\ ~present, ~r.raised /\ present)
    /\ UNCHANGED <<attached, bodyOutcome, response>>

\* HaveIBeenPwnedSensor.update, the host's periodic poll
sensor_update(i, outcome, body) ==
    /\ i \in attached
    /\ LET r == update(FALSE, outcome, body)
           present == emails[i] \in DOMAIN r.data
       IN  /\ Called(FALSE, outcome, r)
           /\ state' = IF r.raised THEN state ELSE refresh_state(i, r.data)
           /\ last' = SensorObserved("sensor_update", i, FALSE, outcome, r, FALSE, FALSE)
    /\ UNCHANGED <<attached, timer, bodyOutcome, response>>

\* ------------------------------------------------------------------- clock
\* Elapsed times since the last run at which calls are observed: inside the short
\* window, on it, just past it, on the long window and just past it
ObservedAges ==
    {0, 1,
     MIN_TIME_BETWEEN_FORCED_UPDATES, MIN_TIME_BETWEEN_FORCED_UPDATES + 1,
     MIN_TIME_BETWEEN_UPDATES, MIN_TIME_BETWEEN_UPDATES + 1}

\* The steps of the clock that lead from one observed age to a later one
TickSteps ==
    {p[1] - p[2] : p \in {q \in ObservedAges \X ObservedAges : q[1] > q[2]}}

\* An age d seconds later, saturating just past the long window
Aged(age, d) ==
    IF age = None THEN None ELSE Min(age + d, MIN_TIME_BETWEEN_UPDATES + 1)

\* d seconds pass
Tick(d) ==
    /\ bodyAge = None \/ Aged(bodyAge, d) \in ObservedAges
    /\ bodyAge = None => d <= MIN_TIME_BETWEEN_FORCED_UPDATES
    /\ standardAge' = Aged(standardAge, d)
    /\ forcedAge' = Aged(forcedAge, d)
    /\ bodyAge' = Aged(bodyAge, d)
    /\ timer' = [i \in DOMAIN timer |->
                    IF timer[i] = None THEN None ELSE Max(timer[i] - d, 0)]
    /\ last' = NoCall
    /\ response' = << >>
    /\ UNCHANGED <<emails, current_index, email, data, state, attached,
                   fetched, okRuns, bodyForced, notFound, bodyOutcome>>

\* ----------------------------------------------------------- specification
\* setup_platform: HaveIBeenPwnedData(emails, api_key) and one sensor per email
Init ==
    /\ emails \in EmailLists
    /\ current_index = 0
    /\ email = emails[1]
    /\ data = EmptyData
    /\ standardAge = None
    /\ forcedAge = None
    /\ state = [i \in 1 .. Len(emails) |-> None]
    /\ attached = {}
    /\ timer = [i \in 1 .. Len(emails) |-> None]
    /\ last = NoCall
    /\ fetched = {}
    /\ okRuns = 0
    /\ bodyAge = None
    /\ bodyForced = FALSE
    /\ notFound = {}
    /\ bodyOutcome = "none"
    /\ response = << >>

\* What a call can meet: an outcome of the request, or the throttle
CallOutcomes == Outcomes \cup {"throttled"}

Bodies(outcome) == IF outcome = "ok" THEN Responses ELSE {<< >>}

\* The fetcher under arbitrary callers of its two entry points
Next ==
    \/ \E outcome \in CallOutcomes : \E body \in Bodies(outcome) :
           call_update(outcome, body)
    \/ \E outcome \in CallOutcomes : \E body \in Bodies(outcome) :
           call_update_no_throttle(outcome, body)
    \/ \E d \in TickSteps : Tick(d)

Spec == Init /\ [][Next]_vars

\* The fetcher driven by its sensor entities
SensorNext ==
    \/ \E i \in Entities : async_added_to_hass(i)
    \/ \E i \in Entities, outcome \in CallOutcomes : \E body \in Bodies(outcome) :
           sensor_update_nothrottle(i, outcome, body)
    \/ \E i \in Entities, outcome \in CallOutcomes : \E body \in Bodies(outcome) :
           sensor_update(i, outcome, body)
    \/ \E d \in TickSteps : Tick(d)

SensorSpec == Init /\ [][SensorNext]_vars

\* Startup with a remote that answers every executed fetch with 200 or 404
StartupOutcomes == {"ok", "not_found", "throttled"}

\* What the remote answers at startup: one breach, or 404
StartupBodies(outcome) ==
    IF outcome = "ok" THEN {<<[Title |-> "Acme", AddedDate |-> 1]>>} ELSE {<< >>}

\* hass adds entity i (setup_platform hands every sensor to add_entities)
Attach(i) == i \in Entities /\ async_added_to_hass(i)

\* the queued job or the fired timer of entity i runs update_nothrottle
Retry(i) ==
    /\ i \in Entities
    /\ \E outcome \in StartupOutcomes : \E body \in StartupBodies(outcome) :
           sensor_update_nothrottle(i, outcome, body)

\* the periodic poll of entity i
Poll(i) ==
    /\ i \in Entities
    /\ \E outcome \in StartupOutcomes : \E body \in StartupBodies(outcome) :
           sensor_update(i, outcome, body)

Pass == \E d \in TickSteps : Tick(d)

StartupNext ==
    \/ \E i \in 1 .. MaxEmails : Attach(i)
    \/ \E i \in 1 .. MaxEmails : Retry(i)
    \/ \E i \in 1 .. MaxEmails : Poll(i)
    \/ Pass

\* Every entity is added, queued jobs and fired timers run, and time passes
StartupSpec ==
    /\ Init
    /\ [][StartupNext]_vars
    /\ \A i \in 1 .. MaxEmails : WF_vars(Attach(i)) /\ WF_vars(Retry(i))
    /\ WF_vars(Pass)

\* ------------------------------------------------------------------ claims
FetchOps == {"update", "update_no_throttle", "sensor_update", "sensor_update_nothrottle"}

SensorOps == {"sensor_update", "sensor_update_nothrottle"}

IsCall(l) == l.op \in FetchOps

\* C1: in every reachable state the cursor is an integer in [0, k), k the number
\* of configured emails, whatever calls and outcomes came before.
C1_CursorInRange == current_index \in 0 .. (email_count - 1)

\* C1 witness: a successful fetch at the last index has wrapped the cursor to 0.
C1_Wrapped ==
    /\ email_count = 2
    /\ IsCall(last) /\ last.ran /\ last.outcome = "ok"
    /\ last.index = 1 /\ current_index = 0

\* C2: after one invocation (standard or forced) the cursor is
\* (previous + 1) mod k if the body ran and the remote answered 200 or 404, and
\* the previous cursor in every other case (other status, transport failure,
\* malformed response, throttled call).
C2_CursorStep ==
    IsCall(last) =>
        current_index = IF last.ran /\ Succeeded(last.outcome)
                        THEN (last.index + 1) % email_count
                        ELSE last.index

\* C2 witness: a forced call answered 404 moved the cursor from 0 to 1.
C2_Advanced ==
    /\ IsCall(last) /\ last.forced /\ last.ran /\ last.outcome = "not_found"
    /\ last.index = 0 /\ current_index = 1

\* C3: an address is a key of the cache only once an executed fetch of it has
\* ended with 200 or 404; throttled, failed and other-email invocations never
\* create its key.
C3_AbsentUntilFetched == \A e \in Addresses : e \in DOMAIN data => e \in fetched

\* C3 witness: a throttled call for an email that is still absent, after an
\* earlier failed run, while another email already has its entry.
C3_StillAbsent ==
    /\ IsCall(last) /\ last.outcome = "throttled"
    /\ last.email \notin DOMAIN data
    /\ okRuns = None
    /\ data # EmptyData

\* C4: a fetch whose body ran and failed (transport failure, malformed response
\* or a status other than 200 and 404) leaves the whole cache and the cursor as
\* they were before the call.
C4_FailureFrame ==
    [][(IsCall(last') /\ last'.ran /\ ~Succeeded(last'.outcome))
          => (data' = data /\ current_index' = current_index)]_vars

\* C4 witness: a transport failure for a still-absent email with another entry cached.
C4_FailedRun ==
    /\ IsCall(last) /\ last.ran /\ last.outcome = "transport"
    /\ last.email \notin DOMAIN data
    /\ data # EmptyData

\* C5: no fetch invocation, standard or forced, raises to its caller, whatever
\* the outcome (200, 404, other status, transport failure, malformed response,
\* throttle suppression).
C5_NeverRaises == IsCall(last) => ~last.raised

\* C6: standard gate. A standard call made within the long window (15 minutes)
\* of a standard call that ran the body is a no-op: no request, cache and cursor
\* unchanged. A standard call made after the long window has elapsed since the
\* last execution runs the body.
C6_StandardGate ==
    [][(IsCall(last') /\ ~last'.forced) =>
          /\ (bodyAge # None /\ ~bodyForced /\ bodyAge <= MIN_TIME_BETWEEN_UPDATES)
                => /\ ~last'.ran
                   /\ last'.outcome = "throttled"
                   /\ data' = data /\ current_index' = current_index
          /\ (bodyAge # None /\ bodyAge > MIN_TIME_BETWEEN_UPDATES) => last'.ran]_vars

\* C6 witness: a standard call exactly 15 minutes after a standard run, suppressed.
C6_Suppressed ==
    /\ IsCall(last) /\ ~last.forced /\ ~last.ran
    /\ last.age = MIN_TIME_BETWEEN_UPDATES /\ ~last.prevForced

\* C7: forced gate. A forced call made within the short window (5 seconds) of a
\* forced call that ran the body does not run it; a forced call made more than
\* the short window after the last execution runs the body, also inside the
\* long window.
C7_ForcedGate ==
    [][(IsCall(last') /\ last'.forced) =>
          /\ (bodyAge # None /\ bodyForced /\ bodyAge <= MIN_TIME_BETWEEN_FORCED_UPDATES)
                => /\ ~last'.ran
                   /\ data' = data /\ current_index' = current_index
          /\ (bodyAge # None /\ bodyAge > MIN_TIME_BETWEEN_FORCED_UPDATES)
                => last'.ran]_vars

\* C7 witness: a forced call 6 seconds after a forced run, inside the long
\* window, ran the body.
C7_SecondForcedRan ==
    /\ IsCall(last) /\ last.forced /\ last.ran /\ last.prevForced
    /\ last.age = MIN_TIME_BETWEEN_FORCED_UPDATES + 1

\* C8: after an executed fetch of an uncached email ended with 404 the cache
\* holds that email with an empty sequence, and the entity of that email reports
\* 0, not unknown, after its next startup or steady-state refresh.
C8_NotFoundReportsZero ==
    /\ (IsCall(last) /\ last.ran /\ last.outcome = "not_found")
          => (last.email \in DOMAIN data /\ data[last.email] = << >>)
    /\ (last.op \in SensorOps /\ emails[last.entity] \in notFound)
          => state[last.entity] = 0

\* C9: round-robin coverage. From the initial state, while every executed fetch
\* has ended with 200 or 404, the i-th execution stored the entry of the i-th
\* email; after k of them every email has an entry and the cursor is back at 0.
C9_RoundRobin ==
    (okRuns # None) =>
        /\ current_index = okRuns % email_count
        /\ \A j \in 1 .. okRuns : emails[j] \in DOMAIN data
        /\ (IsCall(last) /\ last.ran) =>
              (okRuns >= 1 /\ last.index = okRuns - 1 /\ last.email = emails[okRuns])

\* C9 witness: two distinct emails, two successful executions, cursor back at 0.
C9_FullCycle ==
    /\ email_count = 2 /\ emails[1] # emails[2]
    /\ okRuns = 2 /\ current_index = 0
    /\ DOMAIN data = {emails[1], emails[2]}

C14_ForcedRunResetsStandardGate ==
    [][(IsCall(last') /\ ~last'.forced /\ bodyAge # None /\ bodyForced
           /\ bodyAge <= MIN_TIME_BETWEEN_UPDATES)
          => (~last'.ran /\ data' = data /\ current_index' = current_index)]_vars

\* C14 witness: a standard call 6 seconds after a forced run, suppressed.
C14_SuppressedAfterForced ==
    /\ IsCall(last) /\ ~last.forced /\ ~last.ran /\ last.prevForced
    /\ last.age = MIN_TIME_BETWEEN_FORCED_UPDATES + 1

\* C15: a run of the body resets the throttle whatever its outcome: a standard
\* call made within the long window of a standard call whose body ran and ended
\* in a transport failure is suppressed, and one made after the long window runs.
C15_FailedRunConsumesWindow ==
    [][(IsCall(last') /\ ~last'.forced /\ bodyAge # None /\ ~bodyForced
           /\ bodyOutcome = "transport")
          => (last'.ran = (bodyAge > MIN_TIME_BETWEEN_UPDATES))]_vars

\* C15 witness: a standard call 15 minutes after a standard run that ended in a
\* transport failure, suppressed; the failed email is still uncached.
C15_SuppressedAfterFailure ==
    /\ IsCall(last) /\ ~last.forced /\ ~last.ran /\ ~last.prevForced
    /\ bodyOutcome = "transport"
    /\ last.age = MIN_TIME_BETWEEN_UPDATES
    /\ last.email \notin DOMAIN data

Descending(s) == \A k \in 1 .. (Len(s) - 1) : s[k].AddedDate >= s[k + 1].AddedDate

Count(s, x) == Cardinality({k \in 1 .. Len(s) : s[k] = x})

Permutation(s, t) == Len(s) = Len(t) /\ \A x \in BreachRecord : Count(s, x) = Count(t, x)

\* C16: every sequence in the cache is ordered by AddedDate descending, and
\* after an executed fetch that ended with 200 the entry of the fetched email is
\* a permutation of the records of that response, whatever entry it had before.
C16_SortedPermutation ==
    /\ \A a \in DOMAIN data : Descending(data[a])
    /\ (IsCall(last) /\ last.ran /\ last.outcome = "ok")
          => (last.email \in DOMAIN data /\ Permutation(data[last.email], response))

\* C16 witness: a second 200 for the same email, whose records arrived in
\* ascending order, replaced the entry by the reordered records.
C16_Reordered ==
    /\ email_count = 2 /\ emails[1] = emails[2] /\ okRuns = 2
    /\ IsCall(last) /\ last.ran /\ last.outcome = "ok"
    /\ Len(response) = 2 /\ response[1].AddedDate < response[2].AddedDate
    /\ data[last.email] = <<response[2], response[1]>>

Monitored == {emails[k] : k \in 1 .. email_count}

\* C17: cache keys never disappear and are monitored emails; one invocation
\* creates or overwrites at most the entry of the email at the cursor when the
\* call began and leaves every other entry as it was.
C17_CacheFrame ==
    [][/\ DOMAIN data \subseteq DOMAIN data'
       /\ DOMAIN data' \subseteq Monitored
       /\ DOMAIN data' \subseteq DOMAIN data \cup {emails[current_index + 1]}
       /\ \A a \in DOMAIN data : a # emails[current_index + 1] => data'[a] = data[a]]_vars

\* C17 witness: the second email got its entry while the first one's non-empty
\* entry stayed as it was.
C17_OtherEntryKept ==
    /\ email_count = 2 /\ emails[1] # emails[2]
    /\ IsCall(last) /\ last.ran /\ last.outcome = "not_found" /\ last.index = 1
    /\ emails[1] \in DOMAIN data /\ Len(data[emails[1]]) = 2
    /\ emails[2] \in DOMAIN data

C11_RetryIffAbsent ==
    last.op = "sensor_update_nothrottle" =>
        LET i == last.entity
            absent == emails[i] \notin DOMAIN data
        IN  /\ last.scheduled = absent
            /\ absent => timer[i] = MIN_TIME_BETWEEN_FORCED_UPDATES
            /\ ~absent => /\ timer[i] = None
                          /\ last.published
                          /\ state[i] = Len(data[emails[i]])

\* C13: after an entity's periodic update its value is the length of the cache
\* entry of its email if there is one and is unset otherwise, and no retry was
\* scheduled by it.
C13_SteadyStateRefresh ==
    last.op = "sensor_update" =>
        LET i == last.entity
        IN  /\ state[i] = IF emails[i] \in DOMAIN data
                          THEN Len(data[emails[i]]) ELSE None
            /\ ~last.scheduled

\* C18: while no executed fetch has succeeded, an entity's forced invocation
\* whose fetch fails (transport failure or a status other than 200/404) leaves
\* the cursor and the cache as they were, and the entity stays unknown with its
\* retry scheduled again.
C18_BlockedKeepsRetrying ==
    (/\ last.op = "sensor_update_nothrottle"
     /\ last.outcome \in {"transport", "other"}
     /\ fetched = {})
        => /\ current_index = 0
           /\ data = EmptyData
           /\ state[last.entity] = None
           /\ timer[last.entity] = MIN_TIME_BETWEEN_FORCED_UPDATES

\* C20: the current email is the element of the email list at the cursor, and
\* an executed fetch requested exactly that email.
C20_CurrentEmail ==
    /\ current_index \in 0 .. (email_count - 1)
    /\ email = emails[current_index + 1]
    /\ last.ran => last.email = emails[last.index + 1]

\* C20 witness: an entity's call ran the fetch for an email that is not its own.
C20_FetchedForAnother ==
    /\ last.op \in SensorOps /\ last.ran
    /\ last.email = emails[last.index + 1]
    /\ last.email # emails[last.entity]

\* Every entity has been added and has left its startup retry loop with its
\* email in the cache
AllDone ==
    /\ attached = Entities
    /\ \A i \in Entities : timer[i] = None /\ emails[i] \in DOMAIN data

\* C12 (as claimed): when every executed fetch ends with 200 or 404 and retries
\* fire, every startup retry loop eventually terminates with its email cached,
\* and no more than k fetch bodies have been executed when the last one does.
C12_TerminatesWithinK ==
    /\ <>[]AllDone
    /\ [][(~AllDone /\ AllDone') => okRuns' # None]_vars

\* C12 (amended): when every executed fetch ends with 200 or 404 and retries
\* fire, every startup retry loop eventually terminates with its email cached,
\* and every email is cached once k fetch bodies have been executed.
C12_StartupTerminates ==
    /\ <>[]AllDone
    /\ [](okRuns = email_count => Monitored \subseteq DOMAIN data)

\* C12 witness: two entities with different emails have both left their loops,
\* the last one by publishing after a forced call of its own.
C12_AllLoopsDone ==
    /\ AllDone
    /\ email_count = 2 /\ emails[1] # emails[2]
    /\ last.op = "sensor_update_nothrottle" /\ last.published

====
